---------------------------- MODULE Spec2Model ----------------------------
(***************************************************************************)
(* A model of src/main.py: the brand tables, the Luhn checksum, the card   *)
(* generator, the BIN-file cleaner and the /generate request handler.      *)
(*                                                                         *)
(* A Python str is a sequence of one-character strings.  "sup2" stands for *)
(* U+00B2 (SUPERSCRIPT TWO), a character for which str.isdigit() is true   *)
(* and int() raises ValueError.                                            *)
(***************************************************************************)
EXTENDS Integers, Sequences, FiniteSets, TLC

VARIABLES
    pc,         \* position of the running call
    bin_input,  \* argument of infer_len / generate_luhn / generate_card
    year,       \* datetime.utcnow().year, read by generate_card
    card,       \* what the call under test returned or raised
    filename,   \* file.filename of the upload
    text,       \* decoded content of the upload
    count,      \* form field count
    bins,       \* generate: bins
    b_idx,      \* generate: position of b in bins (1-based)
    seen,       \* generate: seen
    to_make,    \* generate: to_make
    line,       \* generate: line, the last line generate_card returned
    lines,      \* generate: lines
    src,        \* history: src[k] is the position in bins of the BIN lines[k] was made for
    i,          \* generate: i of the shuffle loop
    response    \* what the handler returned or raised

vars == <<pc, bin_input, year, card, filename, text, count, bins, b_idx,
          seen, to_make, line, lines, src, i, response>>

----------------------------------------------------------------------------
(* Bounds of the model *)

\* infer_len / cvv_len_for_bin are applied to every digit string of up to MaxLen digits
MaxLen == 3
\* generate_luhn is called on prefixes that leave at most MaxBody body digits
MaxBody == 2
\* clean_bins_from_txt is applied to files of up to MaxLines lines
MaxLines == 3
\* the form field count ranges over 0..MaxCount
MaxCount == 2
\* a count above the 10^2 identifiers of a BIN that leaves two body digits
HugeCount == 101

----------------------------------------------------------------------------
(* Characters and strings *)

DigitChars == <<"0", "1", "2", "3", "4", "5", "6", "7", "8", "9">>

AsciiDigits == {DigitChars[k] : k \in 1..10}

\* str(d) for one digit d
Chr(d) == DigitChars[d + 1]

\* the str whose characters are the digits ds
Chars(ds) == [k \in 1..Len(ds) |-> Chr(ds[k])]

\* ch.isdigit()
isdigit(ch) == ch \in AsciiDigits \cup {"sup2"}

\* int(ch) succeeds
HasInt(ch) == ch \in AsciiDigits

\* int(ch)
IntOf(ch) == CHOOSE d \in 0..9 : DigitChars[d + 1] = ch

\* the values of type str
Strs == Seq(STRING)

\* s.startswith(p)
startswith(s, p) == Len(p) <= Len(s) /\ SubSeq(s, 1, Len(p)) = p

\* str(n), n >= 0
Str[n \in Nat] == IF n < 10 THEN <<Chr(n)>> ELSE Str[n \div 10] \o <<Chr(n % 10)>>

\* the field formatted without its width: f"{n}"
Pad2_unpadded(n) == Str[n]

\* f"{n:02d}", n >= 0
Pad2(n) == IF n < 10 THEN <<"0">> \o Str[n] ELSE Str[n]

\* 10**n
Pow10[n \in Int] == IF n <= 0 THEN 1 ELSE 10 * Pow10[n - 1]

\* "".join(ch for ch in s if ch.isdigit())
FilterDigits[s \in Strs] ==
    IF s = <<>> THEN <<>>
    ELSE (IF isdigit(Head(s)) THEN <<Head(s)>> ELSE <<>>) \o FilterDigits[Tail(s)]

\* sum(xs)
SumSeq[xs \in Seq(Int)] == IF xs = <<>> THEN 0 ELSE Head(xs) + SumSeq[Tail(xs)]

----------------------------------------------------------------------------
(* Brand hints *)

\* BIN_LEN_HINT, in insertion order
BIN_LEN_HINT ==
    << <<Chars(<<3, 4>>), 15>>, <<Chars(<<3, 7>>), 15>>,
       <<Chars(<<4>>), 16>>,
       <<Chars(<<5, 1>>), 16>>, <<Chars(<<5, 2>>), 16>>, <<Chars(<<5, 3>>), 16>>,
       <<Chars(<<5, 4>>), 16>>, <<Chars(<<5, 5>>), 16>>,
       <<Chars(<<2>>), 16>>, <<Chars(<<6, 0, 1, 1>>), 16>>, <<Chars(<<6, 5>>), 16>> >>

RECURSIVE InsertByLen(_, _)
\* one step of the stable sort: e goes after every entry whose key is at least as long
InsertByLen(e, sorted) ==
    IF sorted = <<>> THEN <<e>>
    ELSE IF Len(Head(sorted)[1]) >= Len(e[1])
         THEN <<Head(sorted)>> \o InsertByLen(e, Tail(sorted))
         ELSE <<e>> \o sorted

RECURSIVE SortByLenDesc(_)
\* sorted(BIN_LEN_HINT.keys(), key=len, reverse=True): stable, longest keys first
SortByLenDesc(entries) ==
    IF entries = <<>> THEN <<>>
    ELSE InsertByLen(entries[Len(entries)], SortByLenDesc(SubSeq(entries, 1, Len(entries) - 1)))

SortedHints == SortByLenDesc(BIN_LEN_HINT)

\* the for loop of infer_len over the sorted keys, from the key at position k on,
\* and its fall-through return 16
FirstMatch[bin_str \in Strs, k \in Nat] ==
    IF k > Len(SortedHints) THEN 16
    ELSE IF startswith(bin_str, SortedHints[k][1]) THEN SortedHints[k][2]
         ELSE FirstMatch[bin_str, k + 1]

infer_len(bin_str) == FirstMatch[bin_str, 1]

\* cvv_len_for_bin testing "34" alone
cvv_len_only34(bin_str) ==
    IF startswith(bin_str, Chars(<<3, 4>>)) THEN 4 ELSE 3

cvv_len_for_bin(bin_str) ==
    IF startswith(bin_str, Chars(<<3, 4>>)) \/ startswith(bin_str, Chars(<<3, 7>>))
    THEN 4 ELSE 3

----------------------------------------------------------------------------
(* Luhn *)

\* digits[-s::-2] for s = 1 (odd) and s = 2 (even)
SliceBack[digits \in Seq(Int), s \in {1, 2}] ==
    [k \in 1..((Len(digits) - s + 2) \div 2) |-> digits[Len(digits) - s + 1 - 2 * (k - 1)]]

\* d2 if d2 < 10 else (d2 - 9), for d2 = d * 2
Doubled(d) == IF d * 2 < 10 THEN d * 2 ELSE d * 2 - 9

\* digits = [int(ch) for ch in card_number]
DigitList[card_number \in Strs] == [k \in 1..Len(card_number) |-> IntOf(card_number[k])]

\* checksum = sum(odd); for d in even: checksum += d2 if d2 < 10 else (d2 - 9);
\* return checksum % 10
Checksum[odd \in Seq(Int), even \in Seq(Int)] ==
    (SumSeq[odd] + SumSeq[[k \in 1..Len(even) |-> Doubled(even[k])]]) % 10

\* luhn_checksum with the two slices exchanged: the doubling starts at the last digit
luhn_checksum_swapped(card_number) ==
    Checksum[SliceBack[DigitList[card_number], 2], SliceBack[DigitList[card_number], 1]]

luhn_checksum(card_number) ==
    Checksum[SliceBack[DigitList[card_number], 1], SliceBack[DigitList[card_number], 2]]

\* what a call returns (kind "ok") or raises
Ok(v) == [kind |-> "ok", value |-> v]
Raise(k) == [kind |-> k, value |-> <<>>]

\* the exceptions that are Python ValueErrors
ValueErrors == {"BinRange", "TooLong", "IntLiteral"}

\* body_len of generate_luhn
body_len(bin_str) == infer_len(bin_str) - Len(bin_str) - 1

\* the search of generate_luhn for the check digit, from d on: the first call of
\* luhn_checksum raises ValueError when int() rejects a character of the candidate;
\* the RuntimeError follows a search that found no digit
CheckDigitFrom[partial \in Strs, d \in 0..10] ==
    IF \E k \in 1..Len(partial) : ~HasInt(partial[k]) THEN Raise("IntLiteral")
    ELSE IF d = 10 THEN Raise("RuntimeError")
    ELSE IF luhn_checksum(partial \o Str[d]) = 0 THEN Ok(partial \o Str[d])
    ELSE CheckDigitFrom[partial, d + 1]

\* generate_luhn, with draws the outcomes of the secrets.randbelow(10) calls
generate_luhn(bin_str, draws) ==
    LET total_len == infer_len(bin_str)
        body      == [k \in 1..body_len(bin_str) |-> Str[draws[k]][1]]
    IN  IF Len(bin_str) >= total_len THEN Raise("TooLong")
        ELSE CheckDigitFrom[bin_str \o body, 0]

----------------------------------------------------------------------------
(* One card *)

\* every outcome of secrets.randbelow(n)
RandRange(n) == 0..(n - 1)

\* the outcomes of secrets.randbelow(n) the larger specifications draw: both ends
RandBelow(n) == {0, n - 1}

\* the list secrets.choice draws the year offset from
YearOffsets == {1, 2, 3, 4, 5}

\* low taken as 0
cvv_low_zero(n_cvv) == 0

\* low and high of generate_card
cvv_low(n_cvv) == Pow10[n_cvv - 1]
cvv_high(n_cvv) == Pow10[n_cvv] - 1

\* the argument of the secrets.randbelow call that draws the cvv
cvv_span(bin_str) ==
    cvv_high(cvv_len_for_bin(bin_str)) - cvv_low(cvv_len_for_bin(bin_str)) + 1

\* the length check admitting 4 digits
BinLenOk_from4(bin_str) == 4 <= Len(bin_str) /\ Len(bin_str) <= 12

\* the length check of generate_card
BinLenOk(bin_str) == 5 <= Len(bin_str) /\ Len(bin_str) <= 12

\* f"{card_number}|{exp_month}|{exp_year}|{cvv}"
FormatLine(card_number, exp_month, exp_year, cvv) ==
    card_number \o <<"|">> \o exp_month \o <<"|">> \o exp_year \o <<"|">> \o cvv

\* generate_card, with rnd the outcomes of its random draws:
\* rnd.body (randbelow(10) each), rnd.month (randbelow(12)), rnd.offset (choice),
\* rnd.cvv (randbelow(high - low + 1)); yr is datetime.utcnow().year
generate_card(bin_in, yr, rnd) ==
    LET Made[bin_str \in Strs] ==
            LET card_number == generate_luhn(bin_str, rnd.body)
                exp_month   == Pad2(rnd.month + 1)
                year_yy     == (yr + rnd.offset) % 100
                exp_year    == Pad2(year_yy)
                n_cvv       == cvv_len_for_bin(bin_str)
                cvv         == Str[rnd.cvv + cvv_low(n_cvv)]
            IN  IF ~BinLenOk(bin_str) THEN Raise("BinRange")
                ELSE IF card_number.kind # "ok" THEN card_number
                ELSE Ok(FormatLine(card_number.value, exp_month, exp_year, cvv))
    IN  Made[FilterDigits[bin_in]]

\* the draws of one generate_card call: body_len outcomes of randbelow(10) drawn at
\* both ends, and one outcome each for the month, the year offset and the cvv
DrawsFrom(bin_in, months, offsets, cvvs) ==
    LET bin_str == FilterDigits[bin_in]
        n_body  == IF BinLenOk(bin_str) THEN body_len(bin_str) ELSE 0
    IN  [body : [1..n_body -> RandBelow(10)], month : months, offset : offsets, cvv : cvvs]

\* the draws SpecCard explores
CardDraws(bin_in) ==
    DrawsFrom(bin_in, RandBelow(12), YearOffsets, RandBelow(cvv_span(FilterDigits[bin_in])))

\* s.split(sep)
SplitOn[s \in Strs, sep \in STRING] ==
    IF \A k \in 1..Len(s) : s[k] # sep THEN <<s>>
    ELSE LET at == CHOOSE k \in 1..Len(s) : s[k] = sep /\ \A m \in 1..(k - 1) : s[m] # sep
         IN  <<SubSeq(s, 1, at - 1)>> \o SplitOn[SubSeq(s, at + 1, Len(s)), sep]

\* line.split("|", 1)[0]
PanOf(ln) == SplitOn[ln, "|"][1]

----------------------------------------------------------------------------
(* The values a variable has while its call is not running *)

NoCard == Raise("none")

IdleCard ==
    /\ bin_input = <<>> /\ year = 0 /\ card = NoCard

IdleRequest ==
    /\ filename = <<>> /\ text = <<>> /\ count = 0 /\ bins = <<>> /\ b_idx = 0
    /\ seen = {} /\ to_make = 0 /\ line = <<>> /\ lines = <<>> /\ src = <<>>
    /\ i = 0 /\ response = NoCard

request_vars == <<filename, text, count, bins, b_idx, seen, to_make, line, lines,
                  src, i, response>>

\* every str of at most n ASCII digits
DigitStrs(n) == UNION {[1..k -> AsciiDigits] : k \in 0..n}

----------------------------------------------------------------------------
(* SpecBrand: infer_len and cvv_len_for_bin applied to digit strings *)

BrandExamples ==
    {Chars(<<4, 1, 1, 1>>), Chars(<<6, 0, 1, 1>>), Chars(<<6, 0, 1, 1, 0>>),
     Chars(<<3, 7, 1, 2, 3, 4, 5, 6, 7, 8, 9, 0>>)}

InitBrand ==
    /\ pc = "call"
    /\ bin_input \in DigitStrs(MaxLen) \cup BrandExamples
    /\ year = 0 /\ card = NoCard
    /\ IdleRequest

Infer ==
    /\ pc = "call"
    /\ card' = [total_len |-> infer_len(bin_input), n_cvv |-> cvv_len_for_bin(bin_input)]
    /\ pc' = "ret"
    /\ UNCHANGED <<bin_input, year, request_vars>>

NextBrand == Infer

SpecBrand == InitBrand /\ [][NextBrand]_vars

----------------------------------------------------------------------------
(* SpecLuhn: generate_luhn called on prefixes of card numbers *)

LuhnBases ==
    {Chars(<<3, 7, 1, 2, 3, 4, 5, 6, 7, 8, 9, 0, 1, 2, 3>>),
     Chars(<<3, 4, 0, 0, 0, 0, 0, 0, 0, 0, 0, 0, 0, 0, 0>>),
     Chars(<<4, 1, 1, 1, 1, 1, 1, 1, 1, 1, 1, 1, 1, 1, 1, 1>>),
     Chars(<<6, 0, 1, 1, 0, 0, 0, 9, 9, 0, 1, 3, 9, 4, 2, 4>>),
     Chars(<<9, 8, 7, 6, 5, 4, 3, 2, 1, 0, 9, 8, 7, 6, 5, 4>>)}

LuhnPrefixes ==
    {p \in UNION {{SubSeq(base, 1, k) : k \in 1..Len(base)} : base \in LuhnBases} :
        body_len(p) <= MaxBody}

InitLuhn ==
    /\ pc = "call"
    /\ bin_input \in LuhnPrefixes
    /\ year = 0 /\ card = NoCard
    /\ IdleRequest

GenerateLuhn ==
    /\ pc = "call"
    /\ \E draws \in [1..body_len(bin_input) -> RandRange(10)] :
          card' = generate_luhn(bin_input, draws)
    /\ pc' = "ret"
    /\ UNCHANGED <<bin_input, year, request_vars>>

NextLuhn == GenerateLuhn

SpecLuhn == InitLuhn /\ [][NextLuhn]_vars

----------------------------------------------------------------------------
(* SpecCard: one call of generate_card *)

CardInputs ==
    {Chars(<<4, 1, 1, 1>>),
     Chars(<<4, 1, 1, 1, 1>>),
     Chars(<<9, 9, 9, 9, 9, 9, 9, 9>>),
     Chars(<<3, 4>>) \o <<"-">> \o Chars(<<1, 2, 3, 4>>) \o <<" ">> \o Chars(<<5, 6, 7, 8, 9>>),
     Chars(<<3, 7, 1, 2, 3, 4, 5, 6, 7, 8, 9, 0>>),
     Chars(<<6, 0, 1, 1, 1, 2, 3, 4, 5, 6, 7, 8>>),
     Chars(<<4, 1, 1, 1, 1, 1, 1, 1, 1, 1, 1, 1, 1>>),
     Chars(<<3, 7, 1, 2, 3, 4, 5, 6, 7, 8, 9, 0, 1, 2, 3>>),
     <<"4", "sup2">> \o Chars(<<1, 1, 1, 1>>),
     <<"x">>,
     <<>>}

Years == {2026, 2095}

InitCard ==
    /\ pc = "call"
    /\ bin_input \in CardInputs
    /\ year \in Years
    /\ card = NoCard
    /\ IdleRequest

CardCall ==
    /\ pc = "call"
    /\ \E rnd \in CardDraws(bin_input) : card' = generate_card(bin_input, year, rnd)
    /\ pc' = "ret"
    /\ UNCHANGED <<bin_input, year, request_vars>>

NextCard == CardCall

SpecCard == InitCard /\ [][NextCard]_vars

----------------------------------------------------------------------------
(* The BIN file *)

\* the line boundaries of str.splitlines that occur in the files modelled
IsBreak(ch) == ch \in {"\n", "\r"}

\* text.splitlines(): "\n", "\r" and "\r\n" each end a line; no empty last line
splitlines[s \in Strs] ==
    IF s = <<>> THEN <<>>
    ELSE IF \A k \in 1..Len(s) : ~IsBreak(s[k]) THEN <<s>>
    ELSE LET at   == CHOOSE k \in 1..Len(s) :
                         IsBreak(s[k]) /\ \A m \in 1..(k - 1) : ~IsBreak(s[m])
             skip == IF s[at] = "\r" /\ at < Len(s) /\ s[at + 1] = "\n" THEN 2 ELSE 1
         IN  <<SubSeq(s, 1, at - 1)>> \o splitlines[SubSeq(s, at + skip, Len(s))]

lstrip[s \in Strs] == IF s # <<>> /\ Head(s) = " " THEN lstrip[Tail(s)] ELSE s

rstrip[s \in Strs] ==
    IF s # <<>> /\ s[Len(s)] = " " THEN rstrip[SubSeq(s, 1, Len(s) - 1)] ELSE s

\* line.strip()
strip(s) == rstrip[lstrip[s]]

\* the test of clean_bins_from_txt with the upper limit 13
Keep_to13(digits, out) ==
    /\ digits # <<>>
    /\ 5 <= Len(digits) /\ Len(digits) <= 13
    /\ \A k \in 1..Len(out) : out[k] # digits

\* the test of clean_bins_from_txt without "digits not in out"
Keep_dup(digits, out) ==
    /\ digits # <<>>
    /\ 5 <= Len(digits) /\ Len(digits) <= 12

\* digits and 5 <= len(digits) <= 12 and digits not in out
Keep(digits, out) ==
    /\ digits # <<>>
    /\ 5 <= Len(digits) /\ Len(digits) <= 12
    /\ \A k \in 1..Len(out) : out[k] # digits

\* the for loop of clean_bins_from_txt over the lines left, out being the list so far
CleanFrom[ls \in Seq(Strs), out \in Seq(Strs)] ==
    IF ls = <<>> THEN out
    ELSE LET digits == FilterDigits[strip(Head(ls))]
         IN  CleanFrom[Tail(ls), IF Keep(digits, out) THEN Append(out, digits) ELSE out]

clean_bins_from_txt(txt) == CleanFrom[splitlines[txt], <<>>]

\* sep.join(ls)
JoinWith[ls \in Seq(Strs), sep \in Strs] ==
    IF ls = <<>> THEN <<>>
    ELSE IF Len(ls) = 1 THEN ls[1]
    ELSE ls[1] \o sep \o JoinWith[Tail(ls), sep]

----------------------------------------------------------------------------
(* SpecClean: clean_bins_from_txt applied to files *)

LinePool ==
    {Chars(<<4, 1, 1, 1, 1>>),
     <<" ">> \o Chars(<<4>>) \o <<"-">> \o Chars(<<1, 1>>) \o <<" ">> \o Chars(<<1, 1>>) \o <<" ">>,
     Chars(<<4, 1, 1, 1>>),
     Chars(<<4, 1, 1, 1, 1, 1, 1, 1, 1, 1, 1, 1, 1>>),
     <<"x">> \o Chars(<<3, 7, 1, 2, 3, 4, 5, 6, 7, 8, 9, 0>>),
     <<"4", "sup2">> \o Chars(<<1, 1, 1, 1>>),
     <<>>}

CleanTexts ==
    {JoinWith[ls, sep] : ls \in UNION {[1..k -> LinePool] : k \in 0..MaxLines},
                         sep \in {<<"\n">>, <<"\r", "\n">>}}

InitClean ==
    /\ pc = "call"
    /\ text \in CleanTexts
    /\ filename = <<>> /\ count = 0 /\ bins = <<>> /\ b_idx = 0
    /\ seen = {} /\ to_make = 0 /\ line = <<>> /\ lines = <<>> /\ src = <<>>
    /\ i = 0 /\ response = NoCard
    /\ IdleCard

Clean ==
    /\ pc = "call"
    /\ bins' = clean_bins_from_txt(text)
    /\ pc' = "ret"
    /\ UNCHANGED <<bin_input, year, card, filename, text, count, b_idx, seen, to_make,
                   line, lines, src, i, response>>

NextClean == Clean

SpecClean == InitClean /\ [][NextClean]_vars

----------------------------------------------------------------------------
(* Spec: one POST /generate request *)

\* ch.lower(), for the characters file names are made of
Lower(ch) == CASE ch = "T" -> "t" [] ch = "X" -> "x" [] OTHER -> ch

\* file.filename.lower().endswith(".txt")
IsTxt(name) ==
    LET low == [k \in 1..Len(name) |-> Lower(name[k])]
    IN  /\ Len(low) >= 4
        /\ SubSeq(low, Len(low) - 3, Len(low)) = <<".", "t", "x", "t">>

\* the test that never finds the identifier
IsSeen_never(pan, seen_set) == FALSE

\* pan in seen
IsSeen(pan, seen_set) == pan \in seen_set

\* the draw that leaves position i out: secrets.randbelow(i)
ShuffleDraws_below(n) == RandRange(n)

\* the outcomes of j = secrets.randbelow(i + 1), for i = n
ShuffleDraws(n) == RandRange(n + 1)

\* lines[a], lines[b] = lines[b], lines[a], on 1-based positions
Swap(xs, a, b) == [xs EXCEPT ![a] = xs[b], ![b] = xs[a]]

\* the draws of the generate_card calls of a request: the loop reads the identifier
\* of a line only, and the three other draws are held at their first outcome
BulkDraws(bin_str) == DrawsFrom(bin_str, {0}, {1}, {0})

Amex12  == Chars(<<3, 7, 1, 2, 3, 4, 5, 6, 7, 8, 9, 0>>)
Amex12b == Chars(<<3, 4, 1, 2, 3, 4, 5, 6, 7, 8, 9, 0>>)
Amex11  == Chars(<<3, 7, 1, 2, 3, 4, 5, 6, 7, 8, 9>>)
Amex12j == Chars(<<3, 7>>) \o <<"-">> \o Chars(<<1, 2, 3, 4, 5, 6, 7, 8, 9, 0>>)
BadInt  == <<"4", "sup2">> \o Chars(<<1, 1, 1, 1, 1, 1, 1, 1, 1, 1>>)
Short4  == Chars(<<4, 1, 1, 1>>)

\* the uploads whose BINs leave two body digits
FlatFiles ==
    {<<Amex12>>, <<Amex12, Amex12b>>, <<BadInt, Amex12>>, <<Amex12, Amex12j>>,
     <<Short4>>, <<BadInt>>}

\* the uploads in which one BIN is the beginning of another
NestedFiles == {<<Amex11, Amex12>>}

FileText(ls) == JoinWith[ls, <<"\n">>] \o <<"\n">>

Filenames == {<<"b", ".", "T", "X", "T">>, <<"b", ".", "c", "s", "v">>}

InitRequest(files, counts) ==
    /\ pc = "recv"
    /\ filename \in Filenames
    /\ text \in {FileText(ls) : ls \in files}
    /\ count \in counts
    /\ year \in {2026}
    /\ bin_input = <<>> /\ card = NoCard
    /\ bins = <<>> /\ b_idx = 0 /\ seen = {} /\ to_make = 0
    /\ line = <<>> /\ lines = <<>> /\ src = <<>> /\ i = 0
    /\ response = NoCard

\* the counts requested with the uploads of NestedFiles, whose 11-digit BIN leaves
\* three body digits
NestedCounts == {1, 2}

Init == InitRequest(FlatFiles, 0..MaxCount) \/ InitRequest(NestedFiles, NestedCounts)

\* lines 122-132: the file name check, the parse, the empty-list check
Receive ==
    /\ pc = "recv"
    /\ IF ~IsTxt(filename)
       THEN /\ response' = Raise("NotTxt")
            /\ pc' = "done"
            /\ UNCHANGED bins
       ELSE LET parsed == clean_bins_from_txt(text)
            IN  IF parsed = <<>>
                THEN /\ response' = Raise("NoValidBins")
                     /\ pc' = "done"
                     /\ UNCHANGED bins
                ELSE /\ bins' = parsed
                     /\ pc' = "for"
                     /\ UNCHANGED response
    /\ UNCHANGED <<bin_input, year, card, filename, text, count, b_idx, seen, to_make,
                   line, lines, src, i>>

\* for b in bins: seen = set(); to_make = count
ForNext ==
    /\ pc = "for"
    /\ b_idx < Len(bins)
    /\ b_idx' = b_idx + 1
    /\ seen' = {}
    /\ to_make' = count
    /\ pc' = "while"
    /\ UNCHANGED <<bin_input, year, card, filename, text, count, bins, line, lines,
                   src, i, response>>

\* while to_make > 0: the test fails
WhileExit ==
    /\ pc = "while"
    /\ ~(to_make > 0)
    /\ pc' = "for"
    /\ UNCHANGED <<bin_input, year, card, filename, text, count, bins, b_idx, seen,
                   to_make, line, lines, src, i, response>>

\* generate_card(b) raises: a ValueError breaks the while loop, anything else
\* leaves the handler
CardFail ==
    /\ pc = "while"
    /\ to_make > 0
    /\ \E rnd \in BulkDraws(bins[b_idx]) :
          \E made \in {generate_card(bins[b_idx], year, rnd)} :
              /\ made.kind # "ok"
              /\ IF made.kind \in ValueErrors
                 THEN pc' = "for" /\ UNCHANGED response
                 ELSE pc' = "done" /\ response' = Raise(made.kind)
    /\ UNCHANGED <<bin_input, year, card, filename, text, count, bins, b_idx, seen,
                   to_make, line, lines, src, i>>

\* generate_card(b) returns a line whose identifier is in seen: continue
CardDup ==
    /\ pc = "while"
    /\ to_make > 0
    /\ \E rnd \in BulkDraws(bins[b_idx]) :
          \E made \in {generate_card(bins[b_idx], year, rnd)} :
              /\ made.kind = "ok"
              /\ IsSeen(PanOf(made.value), seen)
              /\ line' = made.value
    /\ UNCHANGED <<pc, bin_input, year, card, filename, text, count, bins, b_idx, seen,
                   to_make, lines, src, i, response>>

\* generate_card(b) returns a line whose identifier is new: it is kept
CardFresh ==
    /\ pc = "while"
    /\ to_make > 0
    /\ \E rnd \in BulkDraws(bins[b_idx]) :
          \E made \in {generate_card(bins[b_idx], year, rnd)} :
              /\ made.kind = "ok"
              /\ ~IsSeen(PanOf(made.value), seen)
              /\ line' = made.value
              /\ seen' = seen \cup {PanOf(made.value)}
              /\ lines' = Append(lines, made.value)
              /\ src' = Append(src, b_idx)
    /\ to_make' = to_make - 1
    /\ UNCHANGED <<pc, bin_input, year, card, filename, text, count, bins, b_idx, i,
                   response>>

\* the for loop is over: the empty-result check, then the shuffle loop starts
ForEnd ==
    /\ pc = "for"
    /\ b_idx = Len(bins)
    /\ IF lines = <<>>
       THEN /\ response' = Raise("AllBinsInvalid")
            /\ pc' = "done"
            /\ UNCHANGED i
       ELSE /\ i' = Len(lines) - 1
            /\ pc' = "shuffle"
            /\ UNCHANGED response
    /\ UNCHANGED <<bin_input, year, card, filename, text, count, bins, b_idx, seen,
                   to_make, line, lines, src>>

\* one pass of for i in range(len(lines) - 1, 0, -1)
ShuffleStep ==
    /\ pc = "shuffle"
    /\ i >= 1
    /\ \E j \in ShuffleDraws(i) :
          /\ lines' = Swap(lines, i + 1, j + 1)
          /\ src' = [src EXCEPT ![i + 1] = src[j + 1], ![j + 1] = src[i + 1]]
    /\ i' = i - 1
    /\ UNCHANGED <<pc, bin_input, year, card, filename, text, count, bins, b_idx, seen,
                   to_make, line, response>>

\* the response: "\n".join(lines) + "\n"
Respond ==
    /\ pc = "shuffle"
    /\ i < 1
    /\ response' = Ok(JoinWith[lines, <<"\n">>] \o <<"\n">>)
    /\ pc' = "done"
    /\ UNCHANGED <<bin_input, year, card, filename, text, count, bins, b_idx, seen,
                   to_make, line, lines, src, i>>

Next ==
    \/ Receive \/ ForNext \/ WhileExit \/ CardFail \/ CardDup \/ CardFresh
    \/ ForEnd \/ ShuffleStep \/ Respond

Spec == Init /\ [][Next]_vars

\* the requests checked for termination: the counts of Spec and one count above the
\* 10^2 identifiers a 12-digit "34"/"37" BIN has.  BulkDraws takes each body digit
\* from both ends of its range, which gives 4 of those identifiers: for a count of at
\* most 4 and for a count above 100 the loop of the model can exit exactly when the
\* loop of the program can
InitLive == InitRequest(FlatFiles, (0..MaxCount) \cup {HugeCount})

\* the random source is fair: an identifier not yet seen, while there is one, is
\* eventually drawn; and the handler keeps running
LiveSpec == InitLive /\ [][Next]_vars /\ WF_vars(Next) /\ WF_vars(CardFresh)

----------------------------------------------------------------------------
(* Claims about the brand lookup (SpecBrand) *)

\* the value of the longest key of BIN_LEN_HINT that is a prefix of bin_str, else 16
LongestMatch(bin_str) ==
    LET hits == {k \in 1..Len(BIN_LEN_HINT) : startswith(bin_str, BIN_LEN_HINT[k][1])}
        best == CHOOSE k \in hits :
                    \A j \in hits : Len(BIN_LEN_HINT[k][1]) >= Len(BIN_LEN_HINT[j][1])
    IN  IF hits = {} THEN 16 ELSE BIN_LEN_HINT[best][2]

\* C5: infer_len returns the value of the longest BIN_LEN_HINT key that is a prefix
\* of its argument, or 16 when none is; cvv_len_for_bin returns 4 for strings that
\* start with "34" or "37" and 3 otherwise; the stated examples hold; and the
\* security-code length is 4 exactly when the total length is 15.
C5_LongestMatchLookup ==
    pc = "ret" =>
        /\ card.total_len = LongestMatch(bin_input)
        /\ card.n_cvv = (IF /\ Len(bin_input) >= 2
                            /\ bin_input[1] = "3"
                            /\ bin_input[2] \in {"4", "7"}
                         THEN 4 ELSE 3)
        /\ (card.n_cvv = 4 <=> card.total_len = 15)
        /\ (bin_input = Chars(<<4, 1, 1, 1>>) => card.total_len = 16 /\ card.n_cvv = 3)
        /\ (bin_input = Chars(<<3, 4>>) => card.total_len = 15)
        /\ (bin_input = Chars(<<9, 9>>) => card.total_len = 16)
        /\ (bin_input = Chars(<<3, 7>>) => card.n_cvv = 4)

C5_Witness ==
    /\ pc = "ret"
    /\ bin_input = Chars(<<3, 7>>)
    /\ card.total_len = 15
    /\ card.n_cvv = 4

----------------------------------------------------------------------------
(* Claims about the check digit (SpecLuhn) *)

\* the sum of the digits of partial, every second one doubled (the two digits of the
\* doubled value added) starting from the rightmost
WeightedSum(partial) ==
    SumSeq[[k \in 1..Len(partial) |->
              LET d == IntOf(partial[k])
              IN  IF (Len(partial) - k) % 2 = 0
                  THEN ((2 * d) \div 10) + ((2 * d) % 10)
                  ELSE d]]

\* C1: the digit generate_luhn appends to partial = prefix + body is
\* (10 - (sum mod 10)) mod 10, the sum taken with every second digit doubled starting
\* from the rightmost digit of partial; the result has checksum 0; and the search
\* over 0..9 never ends in the RuntimeError.
C1_CheckDigit ==
    pc = "ret" =>
        /\ card.kind # "RuntimeError"
        /\ card.kind = "ok" =>
              LET pan     == card.value
                  partial == SubSeq(pan, 1, Len(pan) - 1)
              IN  /\ Len(pan) = infer_len(bin_input)
                  /\ startswith(pan, bin_input)
                  /\ IntOf(pan[Len(pan)]) = (10 - (WeightedSum(partial) % 10)) % 10
                  /\ (WeightedSum(partial) + IntOf(pan[Len(pan)])) % 10 = 0

C1_Witness ==
    /\ pc = "ret"
    /\ card.kind = "ok"
    /\ body_len(bin_input) >= 2
    /\ card.value[Len(card.value)] = "7"

----------------------------------------------------------------------------
(* Claims about one card (SpecCard) *)

AllAscii(s) == \A k \in 1..Len(s) : s[k] \in AsciiDigits

\* the number a string of ASCII digits spells
RECURSIVE NumberOf(_)
NumberOf(s) ==
    IF s = <<>> THEN 0 ELSE 10 * NumberOf(SubSeq(s, 1, Len(s) - 1)) + IntOf(s[Len(s)])

MonthNames ==
    {<<"0", "1">>, <<"0", "2">>, <<"0", "3">>, <<"0", "4">>, <<"0", "5">>, <<"0", "6">>,
     <<"0", "7">>, <<"0", "8">>, <<"0", "9">>, <<"1", "0">>, <<"1", "1">>, <<"1", "2">>}

\* C2: a line generate_card returns has the four fields IDENTIFIER|MM|YY|CODE: the
\* identifier has infer_len(p) digits and starts with the cleaned prefix p, the month
\* is one of "01".."12", the year is the two-digit (currentYear + k) mod 100 for some
\* k in 1..5, and the code has cvv_len_for_bin(p) digits.
C2_WellFormedCard ==
    (pc = "ret" /\ card.kind = "ok") =>
        LET p == FilterDigits[bin_input]
            f == SplitOn[card.value, "|"]
        IN  /\ Len(f) = 4
            /\ Len(f[1]) = infer_len(p) /\ AllAscii(f[1]) /\ startswith(f[1], p)
            /\ f[2] \in MonthNames
            /\ Len(f[3]) = 2 /\ AllAscii(f[3])
            /\ \E k \in 1..5 : NumberOf(f[3]) = (year + k) % 100
            /\ Len(f[4]) = cvv_len_for_bin(p) /\ AllAscii(f[4])

C2_Witness ==
    /\ pc = "ret" /\ card.kind = "ok"
    /\ LET f == SplitOn[card.value, "|"]
       IN  f[2] = <<"1", "2">> /\ f[3] = <<"0", "0">> /\ Len(f[4]) = 4

\* C4 as stated: generate_card fails for a digit-only prefix exactly when
\* len(prefix) >= infer_len(prefix), with the too-long error, and "4111" yields a card.
C4_FailsIffTooLong ==
    (pc = "ret" /\ AllAscii(bin_input)) =>
        /\ card.kind # "ok" <=> Len(bin_input) >= infer_len(bin_input)
        /\ card.kind # "ok" => card.kind = "TooLong"
        /\ bin_input = Chars(<<4, 1, 1, 1>>) => card.kind = "ok"

\* C4 amended: generate_card fails for a prefix of ASCII digits exactly when its
\* length is outside 5..12, with the "BIN must be 5-12 digits" ValueError; that covers
\* every prefix with len(prefix) >= infer_len(prefix), so the too-long error of
\* generate_luhn is never raised through generate_card; "371234567890123" and "4111"
\* both fail that way, and every prefix of 5..12 ASCII digits yields a card whose
\* identifier has infer_len digits and starts with the prefix.
C4_FailsIffOutOfRange ==
    pc = "ret" =>
        LET p == FilterDigits[bin_input]
        IN  /\ card.kind # "TooLong"
            /\ AllAscii(p) =>
                  /\ card.kind # "ok" <=> (Len(p) < 5 \/ Len(p) > 12)
                  /\ card.kind # "ok" => card.kind = "BinRange"
                  /\ Len(p) >= infer_len(p) => card.kind = "BinRange"
                  /\ card.kind = "ok" =>
                        /\ Len(PanOf(card.value)) = infer_len(p)
                        /\ startswith(PanOf(card.value), p)
                        /\ Len(SplitOn[card.value, "|"][4]) = cvv_len_for_bin(p)

C4_Witness ==
    /\ pc = "ret"
    /\ bin_input = Chars(<<3, 7, 1, 2, 3, 4, 5, 6, 7, 8, 9, 0, 1, 2, 3>>)
    /\ card.kind = "BinRange"

\* the security codes generate_card can return for bin_str: str(r + low) for every
\* outcome r of secrets.randbelow(high - low + 1)
CvvCodes(bin_str) ==
    {Str[r + cvv_low(cvv_len_for_bin(bin_str))] : r \in RandRange(cvv_span(bin_str))}

\* C9 as stated: the security codes generate_card can return for a prefix with
\* security-code length n are all 10^n digit strings of length n, "007" among them.
C9_AllDigitStrings ==
    (pc = "call" /\ BinLenOk(FilterDigits[bin_input])) =>
        LET p == FilterDigits[bin_input]
        IN  /\ CvvCodes(p) = [1..cvv_len_for_bin(p) -> AsciiDigits]
            /\ cvv_len_for_bin(p) = 3 => <<"0", "0", "7">> \in CvvCodes(p)

\* C9 amended: the security code is str(randbelow(high - low + 1) + low) with
\* low = 10^(n-1) and high = 10^n - 1: the codes generate_card can return are exactly
\* the digit strings of length n whose first digit is not "0" (9 * 10^(n-1) of them);
\* a code with a leading zero such as "007" is never returned.
C9_NoLeadingZero ==
    LET p == FilterDigits[bin_input]
        n == cvv_len_for_bin(p)
    IN  /\ (pc = "call" /\ BinLenOk(p)) =>
              /\ CvvCodes(p) = {s \in [1..n -> AsciiDigits] : s[1] # "0"}
              /\ Cardinality(CvvCodes(p)) = 9 * Pow10[n - 1]
        /\ (pc = "ret" /\ card.kind = "ok") =>
              LET cvv == SplitOn[card.value, "|"][4]
              IN  Len(cvv) = n /\ AllAscii(cvv) /\ cvv[1] # "0"

C9_Witness ==
    /\ pc = "ret" /\ card.kind = "ok"
    /\ SplitOn[card.value, "|"][4] = <<"1", "0", "0">>

----------------------------------------------------------------------------
(* Claims about the cleaned list (SpecClean) *)

\* the lines of txt: the pieces between its line breaks
LinesOf(txt) == splitlines[txt]

\* a line with every character that is not a digit removed
DigitsOf(ln) == SelectSeq(ln, isdigit)

----------------------------------------------------------------------------
(* Claims about the request handler (Spec, LiveSpec) *)

\* the for loop has finished with the BIN at position k of bins
Finished(k) == pc \in {"shuffle", "done"} \/ k < b_idx \/ (k = b_idx /\ pc = "for")

\* a cleaned BIN fails assembly when one of its digits has no int() value
FailsAssembly(bin_str) == ~AllAscii(bin_str)

\* C3: with count >= 1, each BIN of the cleaned list that does not fail assembly
\* contributes exactly count records, with pairwise distinct identifiers that all
\* start with that BIN (a failing BIN contributes none); the shuffle neither drops
\* nor duplicates a record; and the response holds exactly the collected lines,
\* len(bins) * count of them when no BIN fails.
C3_CountDistinctPerPrefix ==
    (count >= 1 /\ pc \in {"for", "while", "shuffle", "done"}) =>
        \E pans \in {[n \in 1..Len(lines) |-> PanOf(lines[n])]} :
            /\ Len(src) = Len(lines)
            /\ \A n \in 1..Len(src) : src[n] \in 1..Len(bins)
            /\ \A k \in 1..Len(bins) :
                  \E recs \in {{n \in 1..Len(lines) : src[n] = k}} :
                      /\ \A n \in recs : startswith(pans[n], bins[k])
                      /\ \A n, m \in recs : n # m => pans[n] # pans[m]
                      /\ Finished(k) =>
                            Cardinality(recs) = (IF FailsAssembly(bins[k]) THEN 0 ELSE count)
                      /\ (k = b_idx /\ pc = "while") =>
                            /\ Cardinality(recs) = count - to_make
                            /\ seen = {pans[n] : n \in recs}
            /\ (pc = "done" /\ response.kind = "ok") =>
                  /\ splitlines[response.value] = lines
                  /\ (\A k \in 1..Len(bins) : ~FailsAssembly(bins[k])) =>
                        Len(splitlines[response.value]) = Len(bins) * count

C3_Witness ==
    /\ pc = "done" /\ response.kind = "ok"
    /\ count = 2 /\ Len(bins) = 2
    /\ src = <<2, 1, 2, 1>>
    /\ Len(splitlines[response.value]) = 4

\* C8 as stated: no identifier appears in two records of a response.
C8_NoCollision ==
    (pc = "done" /\ response.kind = "ok") =>
        \A n, m \in 1..Len(lines) : n # m => PanOf(lines[n]) # PanOf(lines[m])

\* C8 amended: two records of a response hold the same identifier only when they
\* were made for two different BINs one of which is the beginning of the other (such
\* as 37123456789 and 371234567890, which the cleaned list can hold together); the
\* identifiers of BINs neither of which begins the other never collide.
C8_CollisionOnlyWhenNested ==
    \E pans \in {[n \in 1..Len(lines) |-> PanOf(lines[n])]} :
        \A n, m \in 1..Len(lines) :
            (n # m /\ pans[n] = pans[m]) =>
                /\ src[n] # src[m]
                /\ bins[src[n]] # bins[src[m]]
                /\ \/ startswith(bins[src[n]], bins[src[m]])
                   \/ startswith(bins[src[m]], bins[src[n]])

C8_Witness ==
    /\ pc = "done" /\ response.kind = "ok"
    /\ \E n, m \in 1..Len(lines) : n # m /\ lines[n] = lines[m]

RECURSIVE Shuffled(_, _)
\* the lists the shuffle loop can leave, started on xs with i = k
Shuffled(xs, k) ==
    IF k < 1 THEN {xs}
    ELSE UNION {Shuffled(Swap(xs, k + 1, j + 1), k - 1) : j \in ShuffleDraws(k)}

RECURSIVE DrawSequences(_)
\* the number of sequences of draws of the loop started with i = k
DrawSequences(k) == IF k < 1 THEN 1 ELSE Cardinality(ShuffleDraws(k)) * DrawSequences(k - 1)

RECURSIVE Factorial(_)
Factorial(n) == IF n <= 1 THEN 1 ELSE n * Factorial(n - 1)

\* C10: the shuffle loop, about to start on the collected lines, can leave exactly
\* the permutations of them: every list it can leave is a rearrangement of the
\* positions 1..n, all n! rearrangements can be left, and there are n! sequences of
\* draws, so each is left by exactly one of them; in particular any record can end
\* at any position.
C10_FisherYates ==
    (pc = "shuffle" /\ i = Len(lines) - 1) =>
        \E n \in {Len(lines)} :
        \E outs \in {Shuffled([k \in 1..n |-> k], n - 1)} :
            /\ \A out \in outs : Len(out) = n /\ {out[k] : k \in 1..n} = 1..n
            /\ Cardinality(outs) = Factorial(n)
            /\ DrawSequences(n - 1) = Factorial(n)
            /\ \A k, pos \in 1..n : \E out \in outs : out[pos] = k
            /\ Shuffled(lines, n - 1) = {[k \in 1..n |-> lines[out[k]]] : out \in outs}

C10_Witness ==
    /\ pc = "done" /\ response.kind = "ok"
    /\ Len(bins) = 2 /\ count = 2
    /\ src = <<2, 2, 1, 1>>

\* C7: every request ends, with a response or an error.
C7_RequestEnds == <>(pc = "done")

============================================================================
